---- MODULE Spec2Model ----
(***************************************************************************)
(* Model of src/app.py: the Flask handlers data_stream and                 *)
(* gravar_assinatura, the capture thread worker_gravacao, the retraining   *)
(* routine treinar_ia and the classifier processar_identificacao, all      *)
(* sharing the module globals ESTADO_GRAVACAO, BUFFER_IDENTIFICACAO,       *)
(* APARELHO_ATUAL, ULTIMA_MEDIA, MODELO_IA and MAPA_NOMES without a lock.  *)
(* A step of a thread is the code between two accesses to state that       *)
(* another thread reads or writes.                                         *)
(***************************************************************************)
EXTENDS Integers, Sequences, FiniteSets, TLC

(* ---------------- program constants (literals of src/app.py) ----------- *)
TAMANHO_JANELA == 5
LIMIAR_GATILHO == 30
TIMEOUT_GATILHO == 120
TAMANHO_GRAVACAO == 10
TIMEOUT_COLETA == 60
PISO_DESLIGADO == 10
TOLERANCIA == 50

(* ---------------- bounds of the model ---------------------------------- *)
\* accepted gravar_assinatura calls (capture threads) in one run
MaxCapturas == 2
\* data_stream calls in one run
MaxLeituras == 11
\* data_stream calls in one run that carry a reading at or below the trigger
MaxBaixas == 2
\* data_stream handlers in flight at once under the threaded server
MaxEmVoo == 2
\* seconds the clock advances in one Tick
PassoRelogio == 60
\* fixed-point scale of the feature vectors (units of 1/Escala watt)
Escala == 10

Capturas == 1..MaxCapturas
Manipuladores == 1..MaxEmVoo
Nomes == {"A", "B"}
\* one reading equal to the trigger threshold and one just above it
Leituras == {LIMIAR_GATILHO, LIMIAR_GATILHO + 1}

VARIABLES
  ESTADO_GRAVACAO,       \* the dict of app.py:31-37
  BUFFER_IDENTIFICACAO,  \* app.py:40
  APARELHO_ATUAL,        \* app.py:42
  ULTIMA_MEDIA,          \* app.py:43, in units of 1/Escala watt
  MODELO_IA,             \* app.py:46: Nenhum (None) or the fitted [X, y]
  MAPA_NOMES,            \* app.py:47: function from id to name
  tabela,                \* rows of AssinaturaAparelho, in insertion order
  fio,                   \* capture threads: one per accepted gravar_assinatura
  manip,                 \* data_stream handlers in flight
  resposta,              \* status code of the last gravar_assinatura response
  nLeituras, nBaixas,    \* data_stream calls made so far (all, low readings)
  chegadas,              \* history: the last TAMANHO_JANELA readings in arrival order
  gravadas,              \* history: readings that arrived while status was GRAVANDO
  autor,                 \* history: autor[i] is who wrote tabela[i], and gravadas then
  sessao                 \* history: per capture thread, what arrived during it

vars == <<ESTADO_GRAVACAO, BUFFER_IDENTIFICACAO, APARELHO_ATUAL, ULTIMA_MEDIA,
          MODELO_IA, MAPA_NOMES, tabela, fio, manip, resposta, nLeituras,
          nBaixas, chegadas, gravadas, autor, sessao>>

(* ---------------- arithmetic helpers ----------------------------------- *)
RECURSIVE Soma(_)
Soma(s) == IF s = <<>> THEN 0 ELSE Head(s) + Soma(Tail(s))

RECURSIVE SomaQuadrados(_)
SomaQuadrados(s) == IF s = <<>> THEN 0 ELSE Head(s) * Head(s) + SomaQuadrados(Tail(s))

RECURSIVE Maior(_)
Maior(s) == IF Len(s) = 1 THEN Head(s)
            ELSE LET m == Maior(Tail(s)) IN IF Head(s) > m THEN Head(s) ELSE m

RECURSIVE Menor(_)
Menor(s) == IF Len(s) = 1 THEN Head(s)
            ELSE LET m == Menor(Tail(s)) IN IF Head(s) < m THEN Head(s) ELSE m

\* floor of the square root of a 32-bit x
Raiz(x) == CHOOSE r \in 0..46340 : r * r <= x /\ (r = 46340 \/ x < (r + 1) * (r + 1))

\* the last n elements of s (all of s when it is shorter)
Ultimos(s, n) == IF Len(s) <= n THEN s ELSE SubSeq(s, Len(s) - n + 1, Len(s))

(* ---------------- extrair_features (app.py:74-87) ---------------------- *)
\* [mean, population std, max, min] in units of 1/Escala watt, rounded down
extrair_features(lista_pontos) ==
  IF lista_pontos = <<>> THEN <<0, 0, 0, 0>>
  ELSE LET n == Len(lista_pontos)
           S == Soma(lista_pontos)
           Q == SomaQuadrados(lista_pontos)
       IN << (S * Escala) \div n,
             Raiz((n * Q - S * S) * Escala * Escala) \div n,
             Maior(lista_pontos) * Escala,
             Menor(lista_pontos) * Escala >>

\* MODELO_IA = None (app.py:46, 101): a classifier with no training row
Nenhum == [X |-> <<>>, y |-> <<>>]

(* ---------------- treinar_ia (app.py:92-125) --------------------------- *)
\* list(set(...)) of app.py:108: the distinct names, in any order
NomesUnicos(assinaturas) ==
  LET S == {assinaturas[i].nome_aparelho : i \in DOMAIN assinaturas}
  IN {p \in [1..Cardinality(S) -> S] : \A n \in S : \E i \in DOMAIN p : p[i] = n}

\* app.py:109: id i (from 0) -> name
MapaDe(nomes_unicos) == [i \in 0..(Len(nomes_unicos) - 1) |-> nomes_unicos[i + 1]]

\* app.py:110: name -> id
IdDe(mapa, nome) == CHOOSE i \in DOMAIN mapa : mapa[i] = nome

\* app.py:112-122: the fitted 1-nearest-neighbour classifier is its training set
Ajustar(assinaturas, mapa) ==
  [X |-> [i \in DOMAIN assinaturas |-> extrair_features(assinaturas[i].dados_json)],
   y |-> [i \in DOMAIN assinaturas |-> IdDe(mapa, assinaturas[i].nome_aparelho)]]

(* ---------------- processar_identificacao (app.py:133-166) ------------- *)
Distancia2(a, b) ==
  (a[1] - b[1]) * (a[1] - b[1]) + (a[2] - b[2]) * (a[2] - b[2])
  + (a[3] - b[3]) * (a[3] - b[3]) + (a[4] - b[4]) * (a[4] - b[4])

\* kneighbors with n_neighbors=1: the first training row at least distance
MaisProximo(modelo, f) ==
  CHOOSE i \in DOMAIN modelo.X :
    /\ \A j \in DOMAIN modelo.X : Distancia2(modelo.X[i], f) <= Distancia2(modelo.X[j], f)
    /\ \A j \in DOMAIN modelo.X :
         Distancia2(modelo.X[j], f) = Distancia2(modelo.X[i], f) => i <= j

\* app.py:138: media_temp < 10.0
AbaixoDoPiso(buffer_atual) == Soma(buffer_atual) < PISO_DESLIGADO * Len(buffer_atual)

\* app.py:159: distancia > 50.0
Longe(d2) == d2 > (TOLERANCIA * Escala) * (TOLERANCIA * Escala)

\* app.py:152-165: the label given to the feature vector features_agora
Rotulo(features_agora, modelo, mapa) ==
  LET i == MaisProximo(modelo, features_agora)
      id_previsto == modelo.y[i]
  IN IF Longe(Distancia2(modelo.X[i], features_agora)) THEN "Desconhecido"
     ELSE IF id_previsto \in DOMAIN mapa THEN mapa[id_previsto] ELSE "Erro"

\* the value assigned to APARELHO_ATUAL when nothing else runs between the
\* lines of the function; the features are computed once, as app.py:144-149 does
processar_identificacao(buffer_atual, modelo, mapa) ==
  IF AbaixoDoPiso(buffer_atual) THEN "Desligado"
  ELSE IF modelo = Nenhum THEN "IA Nao Treinada"
  ELSE CHOOSE nome \in {Rotulo(features_agora, modelo, mapa) :
                          features_agora \in {extrair_features(buffer_atual)}} : TRUE

\* a variant that goes on to the try block without a model
RetornoCedo_SemTeste(buffer_atual, modelo) ==
  IF AbaixoDoPiso(buffer_atual) THEN "Desligado" ELSE ""

\* a variant that asks for the model before it looks at the mean
RetornoCedo_ModeloPrimeiro(buffer_atual, modelo) ==
  IF modelo = Nenhum THEN "IA Nao Treinada"
  ELSE IF AbaixoDoPiso(buffer_atual) THEN "Desligado"
  ELSE ""

\* app.py:137-144: the label of an early return, "" when the function goes on
\* to the try block
RetornoCedo(buffer_atual, modelo) ==
  IF AbaixoDoPiso(buffer_atual) THEN "Desligado"
  ELSE IF modelo = Nenhum THEN "IA Nao Treinada"
  ELSE ""

\* app.py:152: MODELO_IA.predict([features_agora])[0], read from the global
\* at this line; -1 when the call raises (the global holds None)
Previsto(buffer_atual, modelo) ==
  IF modelo = Nenhum THEN -1
  ELSE CHOOSE id \in {modelo.y[MaisProximo(modelo, features_agora)] :
                        features_agora \in {extrair_features(buffer_atual)}} : TRUE

\* app.py:156-165: the distance comes from MODELO_IA as it is at line 156, the
\* name from MAPA_NOMES as it is at line 162; id_previsto was computed at 152
RotuloDe(id_previsto, features_agora, modelo, mapa) ==
  IF id_previsto = -1 \/ modelo = Nenhum THEN "Erro IA"
  ELSE IF Longe(Distancia2(modelo.X[MaisProximo(modelo, features_agora)],
                           features_agora))
       THEN "Desconhecido"
  ELSE IF id_previsto \in DOMAIN mapa THEN mapa[id_previsto] ELSE "Erro"

(* ---------------- initial state (app.py:31-47, 63-68, 128) ------------- *)
FioLivre == [pc |-> "livre", nome_aparelho |-> "", decorrido |-> 0,
             valores_finais |-> <<>>, assinaturas |-> <<>>, knn |-> Nenhum]
ManipLivre == [pc |-> "livre", watts |-> 0, id_previsto |-> 0, resposta |-> 0]
SessaoNova == [visto |-> FALSE, padrao |-> 0]

Init ==
  /\ ESTADO_GRAVACAO = [status |-> "OCIOSO",
                        mensagem |-> "Nenhuma gravacao em andamento",
                        buffer |-> <<>>, ultima_leitura |-> 0, aparelho_alvo |-> ""]
  /\ BUFFER_IDENTIFICACAO = <<>>
  /\ APARELHO_ATUAL = "Desconhecido"
  /\ ULTIMA_MEDIA = 0
  /\ tabela = <<>>
  /\ MODELO_IA = Nenhum
  /\ MAPA_NOMES = <<>>
  /\ fio = [c \in Capturas |-> FioLivre]
  /\ manip = [h \in Manipuladores |-> ManipLivre]
  /\ resposta = 0
  /\ nLeituras = 0
  /\ nBaixas = 0
  /\ chegadas = <<>>
  /\ gravadas = <<>>
  /\ autor = <<>>
  /\ sessao = [c \in Capturas |-> SessaoNova]

(* ---------------- gravar_assinatura (app.py:254-266) ------------------- *)
\* the test of app.py:257 with "GRAVANDO" left out: C2_OcupadoSse fails under it
Ocupado_SoGatilho(status) == status = "AGUARDANDO_GATILHO"

\* app.py:257
Ocupado(status) == status \in {"AGUARDANDO_GATILHO", "GRAVANDO"}

\* the capture thread the next accepted call starts
ProximoFio == CHOOSE c \in Capturas :
                /\ fio[c].pc = "livre"
                /\ \A d \in Capturas : fio[d].pc = "livre" => c <= d

\* app.py:257-258: rejected, 409
gravar_assinatura_ocupado ==
  /\ Ocupado(ESTADO_GRAVACAO.status)
  /\ resposta' = 409
  /\ UNCHANGED <<ESTADO_GRAVACAO, BUFFER_IDENTIFICACAO, APARELHO_ATUAL, ULTIMA_MEDIA,
                 MODELO_IA, MAPA_NOMES, tabela, fio, manip, nLeituras, nBaixas,
                 chegadas, gravadas, autor, sessao>>

\* app.py:260-266: accepted, 202; the thread exists but has not run yet
gravar_assinatura_iniciado(nome, capturas, vivas) ==
  /\ ~Ocupado(ESTADO_GRAVACAO.status)
  /\ Cardinality({c \in Capturas : fio[c].pc # "livre"}) < capturas
  /\ Cardinality({c \in Capturas : fio[c].pc \notin {"livre", "fim"}}) < vivas
  /\ ESTADO_GRAVACAO' = [ESTADO_GRAVACAO EXCEPT !.aparelho_alvo = nome]
  /\ fio' = [fio EXCEPT ![ProximoFio] = [FioLivre EXCEPT !.pc = "l177",
                                                         !.nome_aparelho = nome]]
  /\ resposta' = 202
  /\ UNCHANGED <<BUFFER_IDENTIFICACAO, APARELHO_ATUAL, ULTIMA_MEDIA, MODELO_IA,
                 MAPA_NOMES, tabela, manip, nLeituras, nBaixas, chegadas, gravadas,
                 autor, sessao>>

gravar_assinatura(nome, capturas, vivas) ==
  gravar_assinatura_ocupado \/ gravar_assinatura_iniciado(nome, capturas, vivas)

(* ---------------- data_stream (app.py:229-252) ------------------------- *)
\* the thread's clock reads past the timeout of the loop it is in
Atrasado(f) ==
  \/ f.pc = "l181" /\ f.decorrido > TIMEOUT_GATILHO
  \/ f.pc = "l194" /\ f.decorrido > TIMEOUT_COLETA

\* history of one capture thread after reading w arrives.
\* visto: a reading above the trigger arrived after the call was accepted,
\*   while the thread waited for the trigger and before its timeout.
\* padrao: k when what arrived since the call was accepted is some readings at
\*   or below the trigger followed by k readings above it, all of these while
\*   the thread was already polling and before a timeout; -1 for anything else.
SessaoApos(c, w) ==
  IF fio[c].pc \in {"livre", "fim"} THEN sessao[c]
  ELSE [sessao[c] EXCEPT
          !.visto = @ \/ (/\ w > LIMIAR_GATILHO
                          /\ fio[c].pc \in {"l177", "l178", "l181"}
                          /\ ~Atrasado(fio[c])),
          !.padrao = IF @ = -1 \/ Atrasado(fio[c]) THEN -1
                     ELSE IF w <= LIMIAR_GATILHO THEN (IF @ = 0 THEN 0 ELSE -1)
                     ELSE IF fio[c].pc \in {"l177", "l178"} THEN -1
                     ELSE IF @ < TAMANHO_GRAVACAO THEN @ + 1 ELSE -1]

EmVoo == {h \in Manipuladores : manip[h].pc # "livre"}

\* app.py:233-235: a request carrying the reading w arrives; ultima_leitura = watts
data_stream_l235(h, w, emVoo, baixas, historia) ==
  /\ manip[h].pc = "livre"
  /\ \A k \in Manipuladores : manip[k].pc = "livre" => h <= k
  /\ Cardinality(EmVoo) < emVoo
  /\ nLeituras < MaxLeituras
  /\ w <= LIMIAR_GATILHO => nBaixas < baixas
  /\ ESTADO_GRAVACAO' = [ESTADO_GRAVACAO EXCEPT !.ultima_leitura = w]
  /\ manip' = [manip EXCEPT ![h] = [ManipLivre EXCEPT !.pc = "l238", !.watts = w]]
  /\ nLeituras' = nLeituras + 1
  /\ nBaixas' = IF w <= LIMIAR_GATILHO THEN nBaixas + 1 ELSE nBaixas
  /\ chegadas' = Ultimos(Append(chegadas, w), TAMANHO_JANELA)
  /\ gravadas' = IF ESTADO_GRAVACAO.status = "GRAVANDO"
                    /\ Len(gravadas) < TAMANHO_GRAVACAO
                 THEN Append(gravadas, w) ELSE gravadas
  /\ sessao' = IF historia THEN [c \in Capturas |-> SessaoApos(c, w)] ELSE sessao
  /\ UNCHANGED <<BUFFER_IDENTIFICACAO, APARELHO_ATUAL, ULTIMA_MEDIA, MODELO_IA,
                 MAPA_NOMES, tabela, fio, resposta, autor>>

\* a JSON field of the request body: absent, a number, or a string that is
\* not a number
Ausente == [t |-> "ausente", v |-> 0]
Num(v) == [t |-> "num", v |-> v]
Texto == [t |-> "texto", v |-> 0]

\* dict.get(key, default)
Obter(campo, padrao) == IF campo.t = "ausente" THEN padrao ELSE campo

\* float(x): the number, or an exception
Float(campo) == [ok |-> campo.t = "num", v |-> campo.v]

\* app.py:233-234: request.get_json() raises on a body that is not JSON;
\* watts = float(data.get('watts', data.get('power', 0.0)))
Lido(corpo) ==
  IF ~corpo.legivel THEN [ok |-> FALSE, v |-> 0]
  ELSE Float(Obter(corpo.watts, Obter(corpo.power, Num(0))))

\* app.py:251-252: an exception of lines 233-234 is answered 500; nothing
\* was assigned before it
data_stream_l251(h, emVoo) ==
  /\ manip[h].pc = "livre"
  /\ \A k \in Manipuladores : manip[k].pc = "livre" => h <= k
  /\ Cardinality(EmVoo) < emVoo
  /\ manip' = [manip EXCEPT ![h].resposta = 500]
  /\ UNCHANGED <<ESTADO_GRAVACAO, BUFFER_IDENTIFICACAO, APARELHO_ATUAL, ULTIMA_MEDIA,
                 MODELO_IA, MAPA_NOMES, tabela, fio, resposta, nLeituras, nBaixas,
                 chegadas, gravadas, autor, sessao>>

\* app.py:231-235, 251: a request with the body corpo arrives
data_stream_l233(h, corpo, emVoo, baixas, historia) ==
  IF Lido(corpo).ok
  THEN data_stream_l235(h, Lido(corpo).v, emVoo, baixas, historia)
  ELSE data_stream_l251(h, emVoo)

\* app.py:238: the test that guards the append
CabeNoBuffer(estado) ==
  estado.status = "GRAVANDO" /\ Len(estado.buffer) < TAMANHO_GRAVACAO

data_stream_l238(h) ==
  /\ manip[h].pc = "l238"
  /\ manip' = [manip EXCEPT ![h].pc = IF CabeNoBuffer(ESTADO_GRAVACAO)
                                      THEN "l239" ELSE "l242"]
  /\ UNCHANGED <<ESTADO_GRAVACAO, BUFFER_IDENTIFICACAO, APARELHO_ATUAL, ULTIMA_MEDIA,
                 MODELO_IA, MAPA_NOMES, tabela, fio, resposta, nLeituras, nBaixas,
                 chegadas, gravadas, autor, sessao>>

\* app.py:239
data_stream_l239(h) ==
  /\ manip[h].pc = "l239"
  /\ ESTADO_GRAVACAO' = [ESTADO_GRAVACAO EXCEPT !.buffer = Append(@, manip[h].watts)]
  /\ manip' = [manip EXCEPT ![h].pc = "l242"]
  /\ UNCHANGED <<BUFFER_IDENTIFICACAO, APARELHO_ATUAL, ULTIMA_MEDIA, MODELO_IA,
                 MAPA_NOMES, tabela, fio, resposta, nLeituras, nBaixas, chegadas,
                 gravadas, autor, sessao>>

\* app.py:243 with >= for >: C6_JanelaFIFO fails under it
Janela_DescarteCedo(buffer, watts) ==
  LET b == Append(buffer, watts)
  IN IF Len(b) >= TAMANHO_JANELA THEN Tail(b) ELSE b

\* app.py:242-244: the window after the append, the overflow test and pop(0)
Janela(buffer, watts) ==
  LET b == Append(buffer, watts)
  IN IF Len(b) > TAMANHO_JANELA THEN Tail(b) ELSE b

\* the request is answered {"ack": true}, 200 (app.py:250)
Respondido == [ManipLivre EXCEPT !.resposta = 200]

\* app.py:242-152: slide the window; when it is full, processar_identificacao
\* runs up to its early return or to predict at line 152, which reads MODELO_IA.
\* Only data_stream handlers touch BUFFER_IDENTIFICACAO, APARELHO_ATUAL and
\* ULTIMA_MEDIA, so these lines are one step beside the capture threads; the
\* properties stated of the window are stated for requests served one at a time.
data_stream_l242(h) ==
  /\ manip[h].pc = "l242"
  /\ LET janela == Janela(BUFFER_IDENTIFICACAO, manip[h].watts)
         cedo == RetornoCedo(janela, MODELO_IA)
     IN /\ BUFFER_IDENTIFICACAO' = janela
        /\ IF Len(janela) # TAMANHO_JANELA
           THEN /\ UNCHANGED <<APARELHO_ATUAL, ULTIMA_MEDIA>>
                /\ manip' = [manip EXCEPT ![h] = Respondido]
           ELSE IF cedo # ""
           THEN /\ APARELHO_ATUAL' = cedo
                /\ ULTIMA_MEDIA' = (Soma(janela) * Escala) \div TAMANHO_JANELA
                /\ manip' = [manip EXCEPT ![h] = Respondido]
           ELSE /\ UNCHANGED <<APARELHO_ATUAL, ULTIMA_MEDIA>>
                /\ manip' = [manip EXCEPT ![h].pc = "l156",
                                          ![h].id_previsto = Previsto(janela, MODELO_IA)]
  /\ UNCHANGED <<ESTADO_GRAVACAO, MODELO_IA, MAPA_NOMES, tabela, fio, resposta,
                 nLeituras, nBaixas, chegadas, gravadas, autor, sessao>>

\* app.py:156-165, 248-250: kneighbors reads MODELO_IA again, the name comes
\* from MAPA_NOMES; then ULTIMA_MEDIA and the answer. treinar_ia writes
\* MAPA_NOMES (line 109) before MODELO_IA (line 124) and this function reads
\* them in the opposite order, so reading both here loses no outcome.
data_stream_l156(h) ==
  /\ manip[h].pc = "l156"
  /\ APARELHO_ATUAL' =
       CHOOSE nome \in {RotuloDe(manip[h].id_previsto, features_agora, MODELO_IA, MAPA_NOMES) :
                          features_agora \in {extrair_features(BUFFER_IDENTIFICACAO)}} : TRUE
  /\ ULTIMA_MEDIA' = (Soma(BUFFER_IDENTIFICACAO) * Escala) \div TAMANHO_JANELA
  /\ manip' = [manip EXCEPT ![h] = Respondido]
  /\ UNCHANGED <<ESTADO_GRAVACAO, BUFFER_IDENTIFICACAO, MODELO_IA, MAPA_NOMES, tabela,
                 fio, resposta, nLeituras, nBaixas, chegadas, gravadas, autor, sessao>>

(* ---------------- worker_gravacao (app.py:170-221) --------------------- *)
Resto == <<BUFFER_IDENTIFICACAO, APARELHO_ATUAL, ULTIMA_MEDIA, manip, resposta,
           nLeituras, nBaixas, chegadas>>

\* the thread returns: its locals die, and its history with it
Fim(c) ==
  /\ fio' = [fio EXCEPT ![c] = [FioLivre EXCEPT !.pc = "fim"]]
  /\ sessao' = [sessao EXCEPT ![c] = SessaoNova]

\* app.py:182-183, 196-197, 216-217, 220-221: the status and the message of an
\* exit path. No thread's control flow reads mensagem, so the two assignments
\* are one step.
Encerrado(estado, status, mensagem) ==
  [estado EXCEPT !.status = status, !.mensagem = mensagem]

\* app.py:174-177: start_wait = time.time(); status = AGUARDANDO_GATILHO
worker_l177(c) ==
  /\ fio[c].pc = "l177"
  /\ ESTADO_GRAVACAO' = [ESTADO_GRAVACAO EXCEPT !.status = "AGUARDANDO_GATILHO"]
  /\ fio' = [fio EXCEPT ![c].pc = "l178", ![c].decorrido = 0]
  /\ UNCHANGED <<Resto, MODELO_IA, MAPA_NOMES, tabela, gravadas, autor, sessao>>

\* app.py:178
worker_l178(c) ==
  /\ fio[c].pc = "l178"
  /\ ESTADO_GRAVACAO' = [ESTADO_GRAVACAO EXCEPT !.buffer = <<>>]
  /\ fio' = [fio EXCEPT ![c].pc = "l181"]
  /\ UNCHANGED <<Resto, MODELO_IA, MAPA_NOMES, tabela, gravadas, autor, sessao>>

\* app.py:181: (time.time() - start_wait) > 120
EsgotouGatilho(decorrido) == decorrido > TIMEOUT_GATILHO

\* app.py:185
Disparou(estado) == estado.ultima_leitura > LIMIAR_GATILHO

\* app.py:180-187: one pass of the trigger loop that leaves it (a pass that
\* sleeps and loops changes nothing)
worker_l181(c) ==
  /\ fio[c].pc = "l181"
  /\ IF EsgotouGatilho(fio[c].decorrido)
     THEN /\ ESTADO_GRAVACAO' = Encerrado(ESTADO_GRAVACAO, "ERRO",
                                          "Timeout: Aparelho nao ligou.")
          /\ Fim(c)
     ELSE /\ Disparou(ESTADO_GRAVACAO)
          /\ fio' = [fio EXCEPT ![c].pc = "l191"]
          /\ UNCHANGED <<ESTADO_GRAVACAO, sessao>>
  /\ UNCHANGED <<Resto, MODELO_IA, MAPA_NOMES, tabela, gravadas, autor>>

\* app.py:191-192: status = GRAVANDO; start_collect = time.time()
worker_l191(c) ==
  /\ fio[c].pc = "l191"
  /\ ESTADO_GRAVACAO' = [ESTADO_GRAVACAO EXCEPT !.status = "GRAVANDO"]
  /\ fio' = [fio EXCEPT ![c].pc = "l194", ![c].decorrido = 0]
  /\ gravadas' = <<>>
  /\ UNCHANGED <<Resto, MODELO_IA, MAPA_NOMES, tabela, autor, sessao>>

\* app.py:194: the negation of the while condition
BufferCheio(estado) == Len(estado.buffer) >= TAMANHO_GRAVACAO

\* app.py:195: (time.time() - start_collect) > 60
EsgotouColeta(decorrido) == decorrido > TIMEOUT_COLETA

\* app.py:194-199: one pass of the collection loop that leaves it
worker_l194(c) ==
  /\ fio[c].pc = "l194"
  /\ IF BufferCheio(ESTADO_GRAVACAO)
     THEN /\ fio' = [fio EXCEPT ![c].pc = "l203"]
          /\ UNCHANGED <<ESTADO_GRAVACAO, sessao>>
     ELSE /\ EsgotouColeta(fio[c].decorrido)
          /\ ESTADO_GRAVACAO' = Encerrado(ESTADO_GRAVACAO, "ERRO", "Timeout coleta.")
          /\ Fim(c)
  /\ UNCHANGED <<Resto, MODELO_IA, MAPA_NOMES, tabela, gravadas, autor>>

\* app.py:203
worker_l203(c) ==
  /\ fio[c].pc = "l203"
  /\ fio' = [fio EXCEPT ![c].pc = "l209",
                        ![c].valores_finais = ESTADO_GRAVACAO.buffer]
  /\ UNCHANGED <<Resto, ESTADO_GRAVACAO, MODELO_IA, MAPA_NOMES, tabela, gravadas,
                 autor, sessao>>

\* app.py:204-207: the row; a list of finite floats survives json.dumps/json.loads
NovaAssinatura(nome_aparelho, valores_finais) ==
  [nome_aparelho |-> nome_aparelho, dados_json |-> valores_finais]

\* app.py:208-209: db.session.add and commit; ok is whether the database answers
\* a failed commit taken for a successful one: C11_FalhaNoBanco fails under it
worker_l209_SemErro(c, ok) ==
  /\ fio[c].pc = "l209"
  /\ IF ok
     THEN /\ tabela' = Append(tabela, NovaAssinatura(fio[c].nome_aparelho,
                                                     fio[c].valores_finais))
          /\ autor' = Append(autor, [fio |-> c, gravadas |-> gravadas])
          /\ fio' = [fio EXCEPT ![c].pc = "l096"]
     ELSE /\ fio' = [fio EXCEPT ![c].pc = "l216"]
          /\ UNCHANGED <<tabela, autor>>
  /\ UNCHANGED <<Resto, ESTADO_GRAVACAO, MODELO_IA, MAPA_NOMES, gravadas, sessao>>

worker_l209(c, ok) ==
  /\ fio[c].pc = "l209"
  /\ IF ok
     THEN /\ tabela' = Append(tabela, NovaAssinatura(fio[c].nome_aparelho,
                                                     fio[c].valores_finais))
          /\ autor' = Append(autor, [fio |-> c, gravadas |-> gravadas])
          /\ fio' = [fio EXCEPT ![c].pc = "l096"]
     ELSE /\ fio' = [fio EXCEPT ![c].pc = "l220"]
          /\ UNCHANGED <<tabela, autor>>
  /\ UNCHANGED <<Resto, ESTADO_GRAVACAO, MODELO_IA, MAPA_NOMES, gravadas, sessao>>

\* app.py:213 -> 96-102: treinar_ia reads the table; ok as above
worker_l096(c, ok) ==
  /\ fio[c].pc = "l096"
  /\ IF ~ok
     THEN /\ fio' = [fio EXCEPT ![c].pc = "l220"]
          /\ UNCHANGED MODELO_IA
     ELSE IF Len(tabela) < 1
     THEN /\ MODELO_IA' = Nenhum
          /\ fio' = [fio EXCEPT ![c].pc = "l216"]
     ELSE /\ fio' = [fio EXCEPT ![c].pc = "l109", ![c].assinaturas = tabela]
          /\ UNCHANGED MODELO_IA
  /\ UNCHANGED <<Resto, ESTADO_GRAVACAO, MAPA_NOMES, tabela, gravadas, autor, sessao>>

\* app.py:108-122: MAPA_NOMES is replaced, then the classifier is fitted locally
worker_l109(c, nomes_unicos) ==
  /\ fio[c].pc = "l109"
  /\ MAPA_NOMES' = MapaDe(nomes_unicos)
  /\ fio' = [fio EXCEPT ![c].pc = "l124",
                        ![c].knn = Ajustar(fio[c].assinaturas, MapaDe(nomes_unicos))]
  /\ UNCHANGED <<Resto, ESTADO_GRAVACAO, MODELO_IA, tabela, gravadas, autor, sessao>>

\* app.py:124
worker_l124(c) ==
  /\ fio[c].pc = "l124"
  /\ MODELO_IA' = fio[c].knn
  /\ fio' = [fio EXCEPT ![c].pc = "l216"]
  /\ UNCHANGED <<Resto, ESTADO_GRAVACAO, MAPA_NOMES, tabela, gravadas, autor, sessao>>

\* app.py:216-217
worker_l216(c) ==
  /\ fio[c].pc = "l216"
  /\ ESTADO_GRAVACAO' = Encerrado(ESTADO_GRAVACAO, "CONCLUIDO", "Sucesso! IA Atualizada.")
  /\ Fim(c)
  /\ UNCHANGED <<Resto, MODELO_IA, MAPA_NOMES, tabela, gravadas, autor>>

\* an except branch that returns without app.py:220-221: C10_SempreLibera
\* fails under it
worker_l220_SemEstado(c) ==
  /\ fio[c].pc = "l220"
  /\ Fim(c)
  /\ UNCHANGED <<Resto, ESTADO_GRAVACAO, MODELO_IA, MAPA_NOMES, tabela, gravadas, autor>>

\* app.py:219-221
worker_l220(c) ==
  /\ fio[c].pc = "l220"
  /\ ESTADO_GRAVACAO' = Encerrado(ESTADO_GRAVACAO, "ERRO", "Erro: banco de dados")
  /\ Fim(c)
  /\ UNCHANGED <<Resto, MODELO_IA, MAPA_NOMES, tabela, gravadas, autor>>

worker_gravacao(c) ==
  \/ worker_l177(c) \/ worker_l178(c) \/ worker_l181(c)
  \/ worker_l191(c) \/ worker_l194(c) \/ worker_l203(c)
  \/ \E ok \in BOOLEAN : worker_l209(c, ok) \/ worker_l096(c, ok)
  \/ \E n \in NomesUnicos(fio[c].assinaturas) : worker_l109(c, n)
  \/ worker_l124(c) \/ worker_l216(c) \/ worker_l220(c)

(* ---------------- time.sleep (app.py:187, 199) ------------------------- *)
\* the thread is not running, or is in a pass of a loop that ends in time.sleep
Dormindo(f, estado) ==
  \/ f.pc \in {"livre", "fim"}
  \/ f.pc = "l181" /\ ~EsgotouGatilho(f.decorrido) /\ ~Disparou(estado)
  \/ f.pc = "l194" /\ ~BufferCheio(estado) /\ ~EsgotouColeta(f.decorrido)

\* what time.time() - start reads after PassoRelogio more seconds
Avanca(f) ==
  IF f.pc \in {"l181", "l194"} THEN [f EXCEPT !.decorrido = @ + PassoRelogio] ELSE f

\* PassoRelogio seconds pass. The loops poll every 0.2 s and 0.1 s and a
\* handler answers at once, so this long passes only while every thread sleeps
\* and no request is being handled.
Tick ==
  /\ EmVoo = {}
  /\ \A c \in Capturas : Dormindo(fio[c], ESTADO_GRAVACAO)
  /\ \E c \in Capturas : fio[c].pc \in {"l181", "l194"}
  /\ fio' = [c \in Capturas |-> Avanca(fio[c])]
  /\ UNCHANGED <<ESTADO_GRAVACAO, BUFFER_IDENTIFICACAO, APARELHO_ATUAL, ULTIMA_MEDIA,
                 MODELO_IA, MAPA_NOMES, tabela, manip, resposta, nLeituras, nBaixas,
                 chegadas, gravadas, autor, sessao>>

(* ---------------- the system ------------------------------------------- *)
data_stream(h, emVoo, baixas, historia) ==
  \/ \E w \in Leituras : data_stream_l235(h, w, emVoo, baixas, historia)
  \/ data_stream_l238(h) \/ data_stream_l239(h) \/ data_stream_l242(h)
  \/ data_stream_l156(h)

\* capturas: capture threads in the run; vivas: capture threads running at
\* once; emVoo: data_stream handlers in flight at once; baixas: readings at or
\* below the trigger; nomes: appliance names; historia: whether the history
\* variable sessao is kept
Passo(capturas, vivas, emVoo, baixas, nomes, historia) ==
  \/ \E nome \in nomes : gravar_assinatura(nome, capturas, vivas)
  \/ \E h \in Manipuladores : data_stream(h, emVoo, baixas, historia)
  \/ \E c \in Capturas : worker_gravacao(c)
  \/ Tick

\* one sensor posting one reading at a time beside one capture
Next == Passo(1, 1, 1, MaxBaixas, Nomes, TRUE)

Spec == Init /\ [][Next]_vars

\* two gravar_assinatura calls in one run, the sensor reporting a running appliance
NextCorrida == Passo(MaxCapturas, MaxCapturas, 1, 0, {"A"}, FALSE)

SpecCorrida == Init /\ [][NextCorrida]_vars

\* the threaded server answering overlapping data_stream calls beside one capture
NextParalelo == Passo(1, 1, MaxEmVoo, 0, {"A"}, FALSE)

SpecParalelo == Init /\ [][NextParalelo]_vars

\* a client that asks for the next capture after the running one has returned
NextJusto == Passo(MaxCapturas, 1, 1, 0, {"A"}, FALSE)

\* under the scheduling the runtime gives: every started thread and every
\* request being served keeps running, and the clock keeps advancing
SpecJusto ==
  /\ Init /\ [][NextJusto]_vars
  /\ WF_vars(Tick)
  /\ WF_vars(\E c \in Capturas : worker_gravacao(c))
  /\ WF_vars(\E h \in Manipuladores :
               \/ data_stream_l238(h) \/ data_stream_l239(h)
               \/ data_stream_l242(h) \/ data_stream_l156(h))

(* ---------------- the server restarted on a stored table --------------- *)
\* app.py:63-68, 128: the table holds what earlier runs stored, and
\* treinar_ia() has run once, alone, when the module was loaded
InitCom(tabelas) ==
  /\ ESTADO_GRAVACAO = [status |-> "OCIOSO",
                        mensagem |-> "Nenhuma gravacao em andamento",
                        buffer |-> <<>>, ultima_leitura |-> 0, aparelho_alvo |-> ""]
  /\ BUFFER_IDENTIFICACAO = <<>>
  /\ APARELHO_ATUAL = "Desconhecido"
  /\ ULTIMA_MEDIA = 0
  /\ tabela \in tabelas
  /\ IF tabela = <<>>
     THEN MODELO_IA = Nenhum /\ MAPA_NOMES = <<>>
     ELSE \E nomes_unicos \in NomesUnicos(tabela) :
            /\ MAPA_NOMES = MapaDe(nomes_unicos)
            /\ MODELO_IA = Ajustar(tabela, MapaDe(nomes_unicos))
  /\ fio = [c \in Capturas |-> FioLivre]
  /\ manip = [h \in Manipuladores |-> ManipLivre]
  /\ resposta = 0
  /\ nLeituras = 0
  /\ nBaixas = 0
  /\ chegadas = <<>>
  /\ gravadas = <<>>
  /\ autor = [i \in DOMAIN tabela |-> [fio |-> 0, gravadas |-> tabela[i].dados_json]]
  /\ sessao = [c \in Capturas |-> SessaoNova]

\* readings of the sensor beside no capture: off, half and full load
LeiturasSensor == {0, 50, 100}

\* ten readings of an appliance switching between off and full load, and ten
\* of one at steady half load
LigaDesliga == <<100, 100, 0, 0, 100, 100, 100, 100, 100, 100>>
MeiaCarga == <<50, 50, 50, 50, 50, 50, 50, 50, 50, 50>>

TabelasSensor ==
  {<<>>,
   <<NovaAssinatura("A", LigaDesliga)>>,
   <<NovaAssinatura("A", LigaDesliga), NovaAssinatura("B", MeiaCarga)>>}

\* bodies the sensor posts: {"watts": w}, {"power": 100}, {}, {"watts": "abc"}
\* and a body that is not JSON
CorposSensor ==
  {[legivel |-> TRUE, watts |-> Num(w), power |-> Ausente] : w \in LeiturasSensor}
  \cup {[legivel |-> TRUE, watts |-> Ausente, power |-> Num(100)],
        [legivel |-> TRUE, watts |-> Ausente, power |-> Ausente],
        [legivel |-> TRUE, watts |-> Texto, power |-> Ausente],
        [legivel |-> FALSE, watts |-> Ausente, power |-> Ausente]}

InitSensor == InitCom(TabelasSensor)

\* the sensor posting one body at a time, nobody asking for a capture
NextSensor ==
  \E h \in Manipuladores :
    \/ \E corpo \in CorposSensor : data_stream_l233(h, corpo, 1, MaxLeituras, FALSE)
    \/ data_stream_l238(h) \/ data_stream_l242(h) \/ data_stream_l156(h)

SpecSensor == InitSensor /\ [][NextSensor]_vars

\* ten readings of a steady appliance near the trigger, and a row of one
\* reading, as a capture thread that lost the race of two captures writes it
Constante == <<40, 40, 40, 40, 40, 40, 40, 40, 40, 40>>
UmaAmostra == <<90>>

TabelasReinicio ==
  {<<NovaAssinatura("A", Constante)>>,
   <<NovaAssinatura("A", Constante), NovaAssinatura("C", UmaAmostra)>>}

InitReinicio == InitCom(TabelasReinicio)

\* one capture of a new appliance on the restarted server
NextReinicio == Passo(1, 1, 1, 0, {"B"}, FALSE)

SpecReinicio == InitReinicio /\ [][NextReinicio]_vars

(* ======================= the claims ==================================== *)
Ativos == {"AGUARDANDO_GATILHO", "GRAVANDO"}
Vivos == {c \in Capturas : fio[c].pc \notin {"livre", "fim"}}
Acabou(c) == fio[c].pc \notin {"livre", "fim"} /\ fio'[c].pc = "fim"

\* C1: at most one capture thread started by an accepted gravar_assinatura
\* has not yet returned.
C1_UmaSessaoAtiva == Cardinality(Vivos) <= 1

\* C2: a gravar_assinatura call answers 409 exactly when the status is
\* AGUARDANDO_GATILHO or GRAVANDO, and a call answered 409 changes neither
\* ESTADO_GRAVACAO nor the table.
C2_OcupadoSse ==
  [][\A nome \in Nomes :
       gravar_assinatura(nome, MaxCapturas, MaxCapturas) =>
         /\ (resposta' = 409) <=> (ESTADO_GRAVACAO.status \in Ativos)
         /\ (resposta' = 202) <=> (ESTADO_GRAVACAO.status \notin Ativos)
         /\ resposta' = 409 => UNCHANGED <<ESTADO_GRAVACAO, tabela, fio>>
         /\ resposta' = 202 => Cardinality(Vivos') = Cardinality(Vivos) + 1]_vars

\* the last call was answered 409 and a capture is collecting
C2_Rejeitada ==
  /\ resposta = 409
  /\ ESTADO_GRAVACAO.status = "GRAVANDO"
  /\ Len(ESTADO_GRAVACAO.buffer) > 0

\* C3: a thread leaves the trigger loop for GRAVANDO only if a reading above
\* the threshold arrived after its call was accepted and before the timeout,
\* and a thread for which such a reading arrived does not reach the timeout
\* still waiting.
C3_GatilhoSse ==
  \A c \in Capturas :
    /\ fio[c].pc = "l191" => sessao[c].visto
    /\ (fio[c].pc = "l181" /\ EsgotouGatilho(fio[c].decorrido)) => ~sessao[c].visto

\* C4: every stored signature holds exactly the TAMANHO_GRAVACAO readings that
\* arrived while the status was GRAVANDO, in arrival order.
C4_AmostrasGravadas ==
  \A i \in DOMAIN tabela :
    /\ Len(tabela[i].dados_json) = TAMANHO_GRAVACAO
    /\ tabela[i].dados_json = autor[i].gravadas

\* C5: a capture that was sent readings at or below the threshold followed by
\* exactly TAMANHO_GRAVACAO readings above it, all within the timeouts and all
\* but the first of these after its thread had set GRAVANDO, does not end by
\* the collection timeout.
C5_PadraoConclui ==
  [][\A c \in Capturas :
       (fio[c].pc = "l194" /\ Acabou(c)) =>
         ~(/\ sessao[c].padrao = TAMANHO_GRAVACAO
           /\ Len(gravadas) = TAMANHO_GRAVACAO - 1)]_vars

\* C6: the window never holds more than TAMANHO_JANELA readings, and between
\* data_stream calls it is the last min(total, TAMANHO_JANELA) readings in
\* arrival order.
C6_JanelaFIFO ==
  /\ Len(BUFFER_IDENTIFICACAO) <= TAMANHO_JANELA
  /\ EmVoo = {} =>
       /\ BUFFER_IDENTIFICACAO = chegadas
       /\ Len(BUFFER_IDENTIFICACAO) =
            IF nLeituras < TAMANHO_JANELA THEN nLeituras ELSE TAMANHO_JANELA

\* the window has evicted at least two readings and holds both kinds
C6_JanelaCheia ==
  /\ EmVoo = {}
  /\ nLeituras >= TAMANHO_JANELA + 2
  /\ BUFFER_IDENTIFICACAO[1] # BUFFER_IDENTIFICACAO[TAMANHO_JANELA]

\* C7: the capture buffer never holds more than TAMANHO_GRAVACAO readings.
C7_BufferLimitado == Len(ESTADO_GRAVACAO.buffer) <= TAMANHO_GRAVACAO

\* C8: no stored signature has an empty sample sequence.
C8_SemAssinaturaVazia == \A i \in DOMAIN tabela : tabela[i].dados_json # <<>>

\* C9: a capture thread that returns leaving the status ERRO has written no
\* row of the table.
C9_ErroNaoGrava ==
  [][\A c \in Capturas :
       (Acabou(c) /\ ESTADO_GRAVACAO'.status = "ERRO") =>
         \A i \in DOMAIN tabela' : autor'[i].fio # c]_vars

\* C10: every started capture thread returns, and whenever no capture thread
\* is running the status is neither AGUARDANDO_GATILHO nor GRAVANDO.
C10_SempreLibera ==
  /\ \A c \in Capturas : (fio[c].pc # "livre") ~> (fio[c].pc = "fim")
  /\ [](Vivos = {} => ESTADO_GRAVACAO.status \notin Ativos)

\* a capture ended in the except branch and the next call was accepted
C10_AceitaDepoisDoErro ==
  /\ fio[1].pc = "fim"
  /\ fio[2].pc = "l177"
  /\ ESTADO_GRAVACAO.status = "ERRO"
  /\ ESTADO_GRAVACAO.mensagem = "Erro: banco de dados"

\* a data_stream request in flight is answered in this step
Atendido(h) == manip[h].pc # "livre" /\ manip'[h].pc = "livre"

\* C11: a capture whose save raised ends with the status ERRO and the failure
\* message, a capture ends CONCLUIDO only with its row in the table, and every
\* data_stream request being served is answered 200 whatever the status and
\* whatever the outcome of the save.
C11_FalhaNoBanco ==
  [][/\ \A c \in Capturas :
          /\ (fio[c].pc = "l220" /\ Acabou(c)) =>
                /\ ESTADO_GRAVACAO'.status = "ERRO"
                /\ ESTADO_GRAVACAO'.mensagem = "Erro: banco de dados"
          /\ (Acabou(c) /\ ESTADO_GRAVACAO'.status = "CONCLUIDO") =>
                \E i \in DOMAIN autor' : autor'[i].fio = c
     /\ \A h \in Manipuladores : Atendido(h) => manip'[h].resposta = 200]_vars

\* a request is being served while the status is ERRO, left by a capture that
\* ended in the except branch with nothing saved
C11_FluxoSegue ==
  /\ fio[1].pc = "fim"
  /\ ESTADO_GRAVACAO.status = "ERRO"
  /\ ESTADO_GRAVACAO.mensagem = "Erro: banco de dados"
  /\ tabela = <<>>
  /\ manip[1].pc = "l242"

\* the reading the description gives a legible body: the number in its power
\* field, 0 when the field is missing or is not a number
LeituraDescrita(corpo) ==
  IF Obter(corpo.watts, corpo.power).t = "num" THEN Obter(corpo.watts, corpo.power).v ELSE 0

\* C12: a request whose power field is missing or is not a number is taken
\* as the reading 0 and acknowledged; only a body that cannot be parsed at
\* all is refused, and a refused request leaves the last reading, the
\* capture buffer, the window and the label as they were.
C12_CampoInvalidoZero ==
  [][/\ \A h \in Manipuladores : \A corpo \in CorposSensor :
          data_stream_l233(h, corpo, 1, MaxLeituras, FALSE) =>
            IF corpo.legivel
            THEN /\ manip'[h].pc = "l238"
                 /\ manip'[h].watts = LeituraDescrita(corpo)
                 /\ ESTADO_GRAVACAO'.ultima_leitura = LeituraDescrita(corpo)
            ELSE /\ manip'[h].pc = "livre" /\ manip'[h].resposta = 500
                 /\ UNCHANGED <<ESTADO_GRAVACAO, BUFFER_IDENTIFICACAO, APARELHO_ATUAL>>
     /\ \A h \in Manipuladores : Atendido(h) => manip'[h].resposta = 200]_vars

\* the handler h finishes the classification step of app.py:246-247 on a
\* full window
Classificado(h) ==
  /\ manip[h].pc \in {"l242", "l156"} /\ manip'[h].pc = "livre"
  /\ Len(BUFFER_IDENTIFICACAO') = TAMANHO_JANELA

\* C13: whenever the window is full and its mean is below the floor of 10,
\* the label becomes the low-power label, whatever the store and the model
\* hold, the empty store included.
C13_AbaixoDoPisoDesligado ==
  [][\A h \in Manipuladores :
       (/\ Classificado(h)
        /\ Soma(BUFFER_IDENTIFICACAO') < PISO_DESLIGADO * TAMANHO_JANELA)
       => APARELHO_ATUAL' = "Desligado"]_vars

\* a window of mean below 10 labelled while a trained model is in place
C13_DesligadoComModelo ==
  /\ APARELHO_ATUAL = "Desligado" /\ MODELO_IA # Nenhum /\ tabela # <<>>
  /\ Len(BUFFER_IDENTIFICACAO) = TAMANHO_JANELA
  /\ Soma(BUFFER_IDENTIFICACAO) < PISO_DESLIGADO * TAMANHO_JANELA
  /\ manip[1].pc = "livre" /\ manip[1].resposta = 200

\* the square of the distance from the window to the nearest stored
\* signature, and the name stored with that signature
DistanciaAoVizinho2(janela, modelo) ==
  CHOOSE d2 \in {Distancia2(modelo.X[MaisProximo(modelo, f)], f) :
                   f \in {extrair_features(janela)}} : TRUE
NomeDoVizinho(janela, modelo, mapa) ==
  mapa[modelo.y[MaisProximo(modelo, extrair_features(janela))]]

\* C14: with a full window of mean at least 10 and a trained model, the
\* label is the nearest signature's name only when the distance is strictly
\* below the tolerance of 50; at the tolerance or above it the label is the
\* unknown label.
C14_ToleranciaEstrita ==
  [][\A h \in Manipuladores :
       (/\ Classificado(h)
        /\ Soma(BUFFER_IDENTIFICACAO') >= PISO_DESLIGADO * TAMANHO_JANELA
        /\ MODELO_IA # Nenhum)
       => IF DistanciaAoVizinho2(BUFFER_IDENTIFICACAO', MODELO_IA)
               < (TOLERANCIA * Escala) * (TOLERANCIA * Escala)
          THEN APARELHO_ATUAL' = NomeDoVizinho(BUFFER_IDENTIFICACAO', MODELO_IA, MAPA_NOMES)
          ELSE APARELHO_ATUAL' = "Desconhecido"]_vars

\* C15: on an empty store the classification never fails and never reports
\* an appliance: the label of a full window is the untrained label or the
\* low-power label, and the request is acknowledged.
C15_SemAssinaturas ==
  [][\A h \in Manipuladores :
       (Classificado(h) /\ tabela = <<>>) =>
          /\ APARELHO_ATUAL' \in {"IA Nao Treinada", "Desligado", "Desconhecido"}
          /\ manip'[h].resposta = 200]_vars

\* a full window of mean at least 10 labelled on the empty table
C15_NaoTreinada ==
  /\ tabela = <<>> /\ MODELO_IA = Nenhum
  /\ APARELHO_ATUAL = "IA Nao Treinada"
  /\ Len(BUFFER_IDENTIFICACAO) = TAMANHO_JANELA
  /\ ~AbaixoDoPiso(BUFFER_IDENTIFICACAO)
  /\ manip[1].pc = "livre" /\ manip[1].resposta = 200

\* C16: a collection that times out with fewer than 10 readings ends in
\* the failed status with the collection-timeout message, its partial
\* buffer is discarded (the buffer is empty afterwards) and nothing is
\* written to the table.
C16_TimeoutDescarta ==
  [][\A c \in Capturas :
       (fio[c].pc = "l194" /\ Acabou(c)) =>
          /\ Len(ESTADO_GRAVACAO.buffer) < TAMANHO_GRAVACAO
          /\ ESTADO_GRAVACAO'.status = "ERRO"
          /\ ESTADO_GRAVACAO'.mensagem = "Timeout coleta."
          /\ ESTADO_GRAVACAO'.buffer = <<>>
          /\ tabela' = tabela]_vars

\* C17: once the capture thread has returned, whether it completed, failed
\* or timed out, the status is idle again.
C17_VoltaAOcioso ==
  Vivos = {} => ESTADO_GRAVACAO.status = "OCIOSO"

\* the feature vectors of every row of the table
FeaturesDaTabela(assinaturas) ==
  [i \in DOMAIN assinaturas |-> extrair_features(assinaturas[i].dados_json)]

\* C18: a data_stream request never changes the trained model or the map of
\* names, and when a capture ends completed the model has been rebuilt from
\* every signature of the table, the one just written included: with the
\* last thread returned and the status completed, the model holds one
\* training row for every row of the table.
C18_ModeloEmDia ==
  [][/\ manip' # manip => UNCHANGED <<MODELO_IA, MAPA_NOMES>>
     /\ (Vivos' = {} /\ ESTADO_GRAVACAO'.status = "CONCLUIDO") =>
          /\ tabela' # <<>>
          /\ MODELO_IA'.X = FeaturesDaTabela(tabela')]_vars

\* the rows of the table before the running capture wrote its own
TabelaAntes == SubSeq(tabela, 1, Cardinality({i \in DOMAIN autor : autor[i].fio = 0}))

\* the label of the window under a model fitted on the table t and the map
\* of names built with it
RotuloCoerente(janela, t) ==
  IF t = <<>> THEN "IA Nao Treinada"
  ELSE CHOOSE nome \in {Rotulo(extrair_features(janela), Ajustar(t, mapa), mapa) :
                          mapa \in {MapaDe(CHOOSE n \in NomesUnicos(t) : TRUE)}} : TRUE

\* C19: a classification that runs while the capture thread retrains
\* reports the label of the nearest signature in one consistent snapshot,
\* the model and map before the retraining or the model and map after it;
\* it never pairs the model of one with the map of the other.
C19_RotuloCoerente ==
  [][\A h \in Manipuladores :
       (Classificado(h) /\ manip[h].pc = "l156") =>
          APARELHO_ATUAL' \in {RotuloCoerente(BUFFER_IDENTIFICACAO', TabelaAntes),
                               RotuloCoerente(BUFFER_IDENTIFICACAO', tabela)}]_vars

\* C20: extrair_features gives the no-signal vector [0,0,0,0] for every list
\* of fewer than 2 readings, the empty list and the list of one reading, and
\* for a list of at least 2 readings all equal to c it gives mean c, std 0,
\* max c, min c: so reads every training row of the model, which is
\* extrair_features of the table row of the same index.
C20_SentinelaAbaixoDeDois ==
  \A i \in DOMAIN MODELO_IA.X :
    i \in DOMAIN tabela =>
      LET pontos == tabela[i].dados_json
          features == MODELO_IA.X[i]
      IN /\ Len(pontos) < 2 => features = <<0, 0, 0, 0>>
         /\ (Len(pontos) >= 2 /\ \A k \in DOMAIN pontos : pontos[k] = pontos[1]) =>
               features = <<pontos[1] * Escala, 0, pontos[1] * Escala, pontos[1] * Escala>>

====
